---------------------------- MODULE Spec2Model ----------------------------
(***************************************************************************)
(* A model of carve_for_ccm_recentlyusedapps.py: the generator parse(),    *)
(* which scans a file for the two CCM_RecentlyUsedApps class signatures    *)
(* and decodes the record that follows each match (process_hit).           *)
(*                                                                         *)
(* Bytes are the integers 0..255, a buffer is a sequence of bytes.  Python *)
(* offsets are 0-based, TLA+ sequences 1-based: byte k of a buffer b is    *)
(* b[k + 1].  Python values are tagged records (None, PyInt, Qword, Str,     *)
(* Datetime) so that values of different Python types can be compared.     *)
(* 64-bit quantities are kept as 8 little-endian bytes, because the        *)
(* integers of the model checker are 32 bits wide.                         *)
(***************************************************************************)
EXTENDS Integers, Sequences, FiniteSets, TLC

VARIABLES
    data,   \* the bytes of the input file (the mmap and fileobj share them)
    fpos,   \* fileobj's position
    matches, \* the matches the iterator re.finditer(pattern, data) holds
    scan,   \* where in data the iterator is: the end of its last match
    out,    \* the records parse() has yielded so far
    pc,     \* the generator: "created", "suspended", "done", "raised"
    err,    \* the exception parse() terminated with, "" if none
    hit     \* the locals of the last process_hit call

vars == <<data, fpos, matches, scan, out, pc, err, hit>>

----------------------------------------------------------------------------
(* Python values *)

None == [t |-> "None"]

PyInt(n) == [t |-> "int", v |-> n]

\* a 64-bit unsigned integer, as its 8 little-endian bytes
Qword(b) == [t |-> "int", q |-> b]

Str(s) == [t |-> "str", v |-> s]

\* a datetime, as the microseconds since 1601-01-01 (8 little-endian bytes)
Datetime(us) == [t |-> "datetime", us |-> us]

----------------------------------------------------------------------------
(* Slices and small helpers *)

Min(a, b) == IF a < b THEN a ELSE b

Max(a, b) == IF a > b THEN a ELSE b

\* Python's buf[lo:hi] for lo >= 0 and any hi (a negative hi counts from the end)
Slice(buf, lo, hi) ==
    LET n == Len(buf)
        h == IF hi < 0 THEN Max(n + hi, 0) ELSE Min(hi, n)
        l == Min(lo, n)
    IN  IF l >= h THEN <<>> ELSE SubSeq(buf, l + 1, h)

\* a function on 1..n as the tuple of its values (computed once)
AsTuple(f) == SubSeq(f, 1, Len(f))

RECURSIVE Concat(_)
Concat(ss) == IF ss = <<>> THEN <<>> ELSE Head(ss) \o Concat(Tail(ss))

\* bytes.rstrip(b'\x00'), str.rstrip('\x00')
rstrip0(s) ==
    LET keep == {i \in 1..Len(s) : s[i] # 0}
    IN  IF keep = {} THEN <<>>
        ELSE SubSeq(s, 1, CHOOSE i \in keep : \A j \in keep : j <= i)

----------------------------------------------------------------------------
(* The signatures and the scanner *)

\* '7C261551B264D35E30A7FA29C75283DAE04BBA71DBE8F5E553F7AD381B406DD8'
VistaText ==
    << 55, 67, 50, 54, 49, 53, 53, 49, 66, 50, 54, 52, 68, 51, 53, 69,
       51, 48, 65, 55, 70, 65, 50, 57, 67, 55, 53, 50, 56, 51, 68, 65,
       69, 48, 52, 66, 66, 65, 55, 49, 68, 66, 69, 56, 70, 53, 69, 53,
       53, 51, 70, 55, 65, 68, 51, 56, 49, 66, 52, 48, 54, 68, 68, 56 >>

\* '6FA62F462BEF740F820D72D9250D743C'
XPText ==
    << 54, 70, 65, 54, 50, 70, 52, 54, 50, 66, 69, 70, 55, 52, 48, 70,
       56, 50, 48, 68, 55, 50, 68, 57, 50, 53, 48, 68, 55, 52, 51, 67 >>

\* the character '|'
Bar == 124

\* str.encode('utf-16le') of ASCII text: each character, then a zero byte
utf16le(s) ==
    AsTuple([i \in 1..(2 * Len(s)) |-> IF i % 2 = 1 THEN s[(i + 1) \div 2] ELSE 0])

\* the two signature literals as they occur in a file
VistaSig == utf16le(VistaText)

XPSig == utf16le(XPText)

\* parse(): the text 'Vista|XP' is encoded as a whole, the bar included
pattern == utf16le(VistaText \o <<Bar>> \o XPText)

\* the regular expression's alternatives: the pattern bytes split at each
\* '|' byte (no other byte of the pattern is special to re)
SplitBar(p) ==
    LET bars == {i \in 1..Len(p) : p[i] = Bar}
        \* where the k-th alternative starts and ends: the k-th bar is the one
        \* with k - 1 bars before it
        bar(k) == IF k = 0 THEN 0
                  ELSE IF k > Cardinality(bars) THEN Len(p) + 1
                  ELSE CHOOSE i \in bars : Cardinality({j \in bars : j < i}) = k - 1
    IN  AsTuple([k \in 1..(Cardinality(bars) + 1) |->
                     SubSeq(p, bar(k - 1) + 1, bar(k) - 1)])

Alternatives == SplitBar(pattern)

\* whether alternative a matches buf at (0-based) position p
MatchesAt(buf, p, a) ==
    /\ p + Len(a) <= Len(buf)
    /\ \A k \in 1..Len(a) : buf[p + k] = a[k]

\* the first alternative, in the pattern's order, that matches at p; 0 if none
AltAt(buf, p) ==
    IF \E i \in 1..Len(Alternatives) : MatchesAt(buf, p, Alternatives[i])
    THEN CHOOSE i \in 1..Len(Alternatives) :
            /\ MatchesAt(buf, p, Alternatives[i])
            /\ \A j \in 1..(i - 1) : ~MatchesAt(buf, p, Alternatives[j])
    ELSE 0

\* one step of re.finditer: the leftmost match at or after position from
NoMatch == [found |-> FALSE]

NextMatch(buf, from) ==
    LET ps == {p \in from..(Len(buf) - 1) : AltAt(buf, p) # 0}
    IN  IF ps = {} THEN NoMatch
        ELSE LET p == CHOOSE x \in ps : \A y \in ps : x <= y
             IN  [found |-> TRUE, start |-> p,
                  end |-> p + Len(Alternatives[AltAt(buf, p)])]

\* re.finditer(pattern, buf) from position from on: the non-overlapping
\* matches, leftmost first.  data is mapped read-only, so what the iterator
\* will give is fixed from the start.
RECURSIVE finditer(_, _)
finditer(buf, from) ==
    LET m == NextMatch(buf, from)
    IN  IF ~m.found THEN <<>> ELSE <<m>> \o finditer(buf, m.end)

\* next() on the iterator that holds the matches ms and stands at position
\* from
next_match(ms, from) ==
    LET is == {i \in 1..Len(ms) : ms[i].start >= from}
    IN  IF is = {} THEN NoMatch
        ELSE ms[CHOOSE i \in is : \A j \in is : i <= j]

\* 'Vista' and 'XP'
VistaName == <<86, 105, 115, 116, 97>>

XPName == <<88, 80>>

RECENTLY_USED_APPS_TYPES == (128 :> Str(VistaName)) @@ (64 :> Str(XPName))

----------------------------------------------------------------------------
(* NamedStruct: a little-endian struct.Struct with named fields *)

\* the formats the two structs use, and the bytes each takes
FmtSize(f) ==
    CASE f = "Q" -> 8
      [] f = "I" -> 4
      [] f = "h" -> 2
      [] f = "1x" -> 1
      [] f = "2x" -> 2
      [] f = "4x" -> 4
      [] f = "5x" -> 5

\* 'x' in fmt: a run of pad bytes, which yields no value and no field
IsPad(f) == f \in {"1x", "2x", "4x", "5x"}

\* struct.Struct.size ('<': no alignment)
RECURSIVE StructSize(_)
StructSize(pairs) ==
    IF pairs = <<>> THEN 0 ELSE FmtSize(Head(pairs)[2]) + StructSize(Tail(pairs))

\* The model checker's integers are 32 bits wide: an unsigned 32-bit value of
\* 2^30 or more is kept as 2^30.  Such a value is only ever compared with, or
\* used to slice, a buffer that is shorter, so what is decoded is the same.
Huge == 1073741824

\* '<I'
u32(b) ==
    IF b[4] >= 64 THEN Huge
    ELSE b[1] + 256 * b[2] + 65536 * b[3] + 16777216 * b[4]

\* '<h': two's complement, 16 bits
s16(b) ==
    LET u == b[1] + 256 * b[2]
    IN  IF u >= 32768 THEN u - 65536 ELSE u

Unpack1(f, b) ==
    CASE f = "Q" -> Qword(b)
      [] f = "I" -> PyInt(u32(b))
      [] f = "h" -> PyInt(s16(b))

\* struct.unpack of a buffer of exactly the struct's size, as the ordered
\* (name, value) pairs of the namedtuple
RECURSIVE UnpackPairs(_, _)
UnpackPairs(pairs, b) ==
    IF pairs = <<>> THEN <<>>
    ELSE LET f == Head(pairs)[2]
             n == FmtSize(f)
             rest == UnpackPairs(Tail(pairs), SubSeq(b, n + 1, Len(b)))
         IN  IF IsPad(f) THEN rest
             ELSE << <<Head(pairs)[1], Unpack1(f, SubSeq(b, 1, n))>> >> \o rest

\* NamedStruct.parse_as_dict(buf, offset): struct.error unless exactly
\* size bytes are there
parse_as_dict(pairs, buf, offset) ==
    LET b == Slice(buf, offset, StructSize(pairs) + offset)
    IN  IF Len(b) # StructSize(pairs)
        THEN [ok |-> FALSE, exc |-> "struct.error"]
        ELSE [ok |-> TRUE, items |-> UnpackPairs(pairs, b)]

\* a dict as a function, from its ordered items
DictOf(items) ==
    [k \in {items[i][1] : i \in 1..Len(items)} |->
        (items[CHOOSE i \in 1..Len(items) : items[i][1] = k])[2]]

\* dict.pop(key) on ordered items: the items left
RECURSIVE PopKey(_, _)
PopKey(items, k) ==
    IF items = <<>> THEN <<>>
    ELSE IF Head(items)[1] = k THEN PopKey(Tail(items), k)
    ELSE <<Head(items)>> \o PopKey(Tail(items), k)

\* Begins after Class ID
RUA_RECORD_HEADER ==
    << <<"last_updated", "Q">>,
       <<"last_joined_sccm", "Q">>,
       <<"record_size", "I">>,
       <<"_classname_offset", "4x">>,
       <<"_unknown_byte_0x98", "1x">>,
       <<"_property_states", "5x">> >>

RUA_PROPERTY_OFFSETS_VALUES ==
    << <<"folder_path", "I">>,
       <<"explorer_filename", "I">>,
       <<"last_username", "I">>,
       <<"original_filename", "I">>,
       <<"file_version", "I">>,
       <<"file_size", "I">>,
       <<"product_name", "I">>,
       <<"product_version", "I">>,
       <<"company_name", "I">>,
       <<"product_language", "I">>,
       <<"file_description", "I">>,
       <<"launch_count", "I">>,
       <<"last_used_time", "I">>,
       <<"product_code", "I">>,
       <<"additional_product_codes", "I">>,
       <<"msi_display_name", "I">>,
       <<"msi_publisher", "I">>,
       <<"msi_version", "I">>,
       <<"software_properties_hash", "I">>,
       <<"file_properties_hash", "I">>,
       <<"_qualifiers_list", "4x">>,
       <<"_dynamic_properties", "1x">>,
       <<"properties_size", "h">>,
       <<"_unknown_short_0xF5", "2x">> >>

RUA_PROPERTY_VALUE_FIELDS == <<"file_size", "launch_count", "product_language">>

RUA_RECORD_STRINGS ==
    << "additional_product_codes", "company_name", "explorer_filename",
       "file_description", "file_properties_hash", "file_version",
       "folder_path", "last_used_time", "last_username", "msi_display_name",
       "msi_publisher", "msi_version", "original_filename", "product_code",
       "product_name", "product_version", "software_properties_hash" >>

CSV_FIELDNAMES ==
    << "input_file_path", "offset", "record_type", "full_path",
       "file_extension", "last_updated", "last_joined_sccm", "file_size",
       "launch_count", "product_language" >> \o RUA_RECORD_STRINGS

\* This is an arbitrary safety limit for the parser
RUA_MAX_RECORD_SIZE == 65536

----------------------------------------------------------------------------
(* Timestamps: 64-bit arithmetic on 8 little-endian bytes *)

Zero64 == <<0, 0, 0, 0, 0, 0, 0, 0>>

\* a > b, compared from the most significant byte down
RECURSIVE Gt64(_, _, _)
Gt64(a, b, i) ==
    IF i = 0 THEN FALSE
    ELSE IF a[i] # b[i] THEN a[i] > b[i]
    ELSE Gt64(a, b, i - 1)

\* a + 1 (the callers' values stay below 2^64 - 1)
RECURSIVE Inc64(_, _)
Inc64(a, i) ==
    IF i > Len(a) THEN a
    ELSE IF a[i] = 255 THEN Inc64([a EXCEPT ![i] = 0], i + 1)
    ELSE [a EXCEPT ![i] = a[i] + 1]

\* long division by d < 2^23, from the most significant byte down:
\* the quotient's bytes and the remainder
RECURSIVE DivMod64(_, _, _, _, _)
DivMod64(a, d, i, r, q) ==
    IF i = 0 THEN [q |-> q, r |-> r]
    ELSE LET x == r * 256 + a[i]
         IN  DivMod64(a, d, i - 1, x % d, [q EXCEPT ![i] = x \div d])

\* datetime.max - datetime(1601, 1, 1), in microseconds: 265046774399999999
MaxMicroseconds == <<255, 159, 249, 20, 163, 162, 173, 3>>

\* parse_timestamp(ticks, int(1e7), datetime(1601, 1, 1)): ticks * 10^6 / 10^7
\* is ticks / 10, exactly (26 digits at most, within Decimal's 28), quantized
\* to an integer with ROUND_HALF_EVEN; epoch + timedelta raises OverflowError
\* past datetime.max
parse_windows_timestamp(qword) ==
    LET d == DivMod64(qword, 10, 8, 0, Zero64)
        up == d.r > 5 \/ (d.r = 5 /\ d.q[1] % 2 = 1)
        us == IF up THEN Inc64(d.q, 1) ELSE d.q
    IN  IF Gt64(us, MaxMicroseconds, 8)
        THEN [ok |-> FALSE, exc |-> "OverflowError"]
        ELSE [ok |-> TRUE, value |-> Datetime(us)]

datetime_from_windows_filetime(count) ==
    IF count = Qword(Zero64) THEN [ok |-> TRUE, value |-> None]
    ELSE LET r == parse_windows_timestamp(count.q)
         IN  IF r.ok THEN r
             ELSE IF r.exc \in {"OverflowError", "TypeError", "ValueError"}
             THEN [ok |-> TRUE, value |-> None]
             ELSE r

----------------------------------------------------------------------------
(* Encoded-String decoding *)

\* U+FFFD, what errors='replace' puts for bytes that do not decode
Replacement == 65533

\* bytes.decode('utf-16le', errors='replace'): a lone low surrogate, or a high
\* surrogate not followed by a low one, is replaced and decoding goes on with
\* the next unit; a high surrogate with fewer than two bytes after it, or a
\* single last byte, is replaced together with the rest of the input
decode_utf16le(b) ==
    LET n == Len(b) \div 2
        unit(i) == b[2 * i - 1] + 256 * b[2 * i]
        high(i) == unit(i) >= 55296 /\ unit(i) <= 56319
        low(i) == unit(i) >= 56320 /\ unit(i) <= 57343
        \* unit i is the low half of a pair (the unit before a low surrogate,
        \* if a high surrogate, always starts a pair)
        second(i) == i > 1 /\ low(i) /\ high(i - 1)
        \* the last unit is a high surrogate: it takes the input's end with it
        open_end == n > 0 /\ high(n)
        char(i) ==
            IF second(i) THEN -1
            ELSE IF high(i) /\ i < n /\ low(i + 1)
            THEN 65536 + (unit(i) - 55296) * 1024 + (unit(i + 1) - 56320)
            ELSE IF high(i) \/ low(i) THEN Replacement
            ELSE unit(i)
    IN  SelectSeq([i \in 1..n |-> char(i)], LAMBDA c : c # -1)
        \o (IF Len(b) % 2 = 1 /\ ~open_end THEN <<Replacement>> ELSE <<>>)

\* neither branch can fail on bytes, so the diagnostic and the None after the
\* two try blocks are never reached
decode_cim_encoded_string(buf, offset, uncompressed) ==
    IF uncompressed
    THEN Str(rstrip0(decode_utf16le(buf)))
    ELSE Str(Slice(rstrip0(buf), offset, Len(rstrip0(buf))))

\* read_cim_encoded_string without the check of the Encoded-String-Flag: a
\* flag other than 0x01 is taken for the compressed format
read_cim_encoded_string_any_flag(buf, start, end) ==
    IF end - start = 2 THEN None
    ELSE IF start > Len(buf) THEN None
    ELSE LET uncompressed_raw == Slice(buf, start, start + 1)
         IN  IF Slice(buf, start + 1, start + 2) = <<>> THEN None
             ELSE decode_cim_encoded_string(Slice(buf, start + 1, end), 0,
                                            uncompressed_raw = <<1>>)

\* the checks of lines 215 to 228 in their order, then the decoding of
\* buf[start + 1:end]
read_cim_encoded_string(buf, start, end) ==
    IF end - start = 2 THEN None
    ELSE IF start > Len(buf) THEN None
    ELSE LET uncompressed_raw == Slice(buf, start, start + 1)
         IN  IF uncompressed_raw \notin {<<0>>, <<1>>} THEN None
             ELSE IF Slice(buf, start + 1, start + 2) = <<>> THEN None
             ELSE decode_cim_encoded_string(Slice(buf, start + 1, end), 0,
                                            uncompressed_raw = <<1>>)

----------------------------------------------------------------------------
(* The file object *)

\* what fileobj.read(n) does for n < -1: an io.BufferedReader (open(path, 'rb'))
\* raises ValueError, a raw io.FileIO reads to the end of the file
ReadModes == {"raise", "readall"}

\* fileobj.read(n) at position pos
file_read(buf, pos, n, mode) ==
    IF n < -1 /\ mode = "raise" THEN [ok |-> FALSE, exc |-> "ValueError"]
    ELSE LET b == IF n < 0 THEN Slice(buf, pos, Len(buf)) ELSE Slice(buf, pos, pos + n)
         IN  [ok |-> TRUE, bytes |-> b, pos |-> pos + Len(b)]

----------------------------------------------------------------------------
(* Field post-processing *)

\* str.rfind of one character: the last 0-based index, -1 if none
rfind(s, chars) ==
    LET is == {i \in 1..Len(s) : s[i] \in chars}
    IN  IF is = {} THEN -1 ELSE (CHOOSE i \in is : \A j \in is : j <= i) - 1

\* os.sep (and os.altsep) of the platform: '/' (posixpath)
OsSeps == {47}

\* '.' and '\'
Dot == 46

Backslash == 92

\* os.path.splitext(p)[1]: from the last dot, if it comes after the last
\* separator and some character between the two is not a dot
splitext_ext(p) ==
    LET sepIndex == rfind(p, OsSeps)
        dotIndex == rfind(p, {Dot})
    IN  IF /\ dotIndex > sepIndex
           /\ \E k \in (sepIndex + 1)..(dotIndex - 1) : p[k + 1] # Dot
        THEN SubSeq(p, dotIndex + 1, Len(p))
        ELSE <<>>

\* str.lower, for the characters up to U+00FF and U+FFFD
lower(s) ==
    AsTuple([i \in 1..Len(s) |->
        IF \/ s[i] \in 65..90
           \/ (s[i] \in 192..222 /\ s[i] # 215)
        THEN s[i] + 32 ELSE s[i]])

\* str.replace('.', '')
remove_dots(s) == SelectSeq(s, LAMBDA c : c # Dot)

\* record.get(key, '') or ''
get_or_empty(record, key) ==
    IF key \in DOMAIN record /\ record[key].t = "str" THEN record[key].v ELSE <<>>

\* x or None
or_None(s) == IF s = <<>> THEN None ELSE Str(s)

parse_fields(record) ==
    LET lu == datetime_from_windows_filetime(record["last_updated"])
        lj == datetime_from_windows_filetime(record["last_joined_sccm"])
        folder_path == get_or_empty(record, "folder_path")
        file_name == get_or_empty(record, "explorer_filename")
        endswith == folder_path # <<>> /\ folder_path[Len(folder_path)] = Backslash
        full_path == folder_path \o (IF endswith THEN <<>> ELSE <<Backslash>>)
                         \o file_name
        file_extension == lower(remove_dots(splitext_ext(file_name)))
    IN  IF ~lu.ok THEN lu
        ELSE IF ~lj.ok THEN lj
        ELSE [ok |-> TRUE,
              record |->
                  ("last_updated" :> lu.value) @@ ("last_joined_sccm" :> lj.value)
                  @@ ("full_path" :> or_None(full_path))
                  @@ ("file_extension" :> or_None(file_extension))
                  @@ record]

----------------------------------------------------------------------------
(* process_hit *)

\* dict.pop(k, None) for each k of ks, on ordered items: the items left
RECURSIVE PopKeys(_, _)
PopKeys(items, ks) ==
    IF ks = <<>> THEN items ELSE PopKeys(PopKey(items, Head(ks)), Tail(ks))

\* the items of the keys ks
RECURSIVE OnlyKeys(_, _)
OnlyKeys(items, ks) ==
    IF items = <<>> THEN <<>>
    ELSE IF \E i \in 1..Len(ks) : ks[i] = Head(items)[1]
    THEN <<Head(items)>> \o OnlyKeys(Tail(items), ks)
    ELSE OnlyKeys(Tail(items), ks)

\* offsets.items() taken as it is, in the offset table's order, with no sorted()
items_unsorted(items) == items

\* sorted(items, key=lambda kv: kv[1]): ascending by value, and stable: an
\* item comes after the items of smaller value and the earlier ones of its own
sorted_by_value(items) ==
    LET n == Len(items)
        before(j, i) ==
            \/ items[j][2].v < items[i][2].v
            \/ (items[j][2].v = items[i][2].v /\ j < i)
        rank == AsTuple([i \in 1..n |-> Cardinality({j \in 1..n : before(j, i)}) + 1])
    IN  AsTuple([k \in 1..n |-> items[CHOOSE i \in 1..n : rank[i] = k]])

\* get_prop_offsets: None when the table does not unpack; otherwise the three
\* value fields move into the record and the other items are returned
get_prop_offsets(buf, pos, record, mode) ==
    LET raw == file_read(buf, pos, StructSize(RUA_PROPERTY_OFFSETS_VALUES), mode)
        d == parse_as_dict(RUA_PROPERTY_OFFSETS_VALUES, raw.bytes, 0)
    IN  IF ~d.ok
        THEN [is_none |-> TRUE, record |-> record, pos |-> raw.pos]
        ELSE [is_none |-> FALSE,
              offsets |-> PopKeys(d.items, RUA_PROPERTY_VALUE_FIELDS),
              record |-> DictOf(OnlyKeys(d.items, RUA_PROPERTY_VALUE_FIELDS)) @@ record,
              pos |-> raw.pos]

\* the locals of a process_hit call that hit keeps; stage tells how far it got
NoHit ==
    [stage |-> "none", hash_start |-> 0, hash_end |-> 0, match_len |-> 0,
     record_size |-> 0, properties_size |-> 0,
     read_size |-> 0, properties_data |-> <<>>, sorted_offsets |-> <<>>,
     fields |-> <<>>]

\* the loop over sorted_offsets: each field's name, range and decoded value
string_fields(properties_data, sorted_offsets, properties_size) ==
    AsTuple([idx \in 1..Len(sorted_offsets) |->
        LET field_offset == sorted_offsets[idx][2].v
            field_end == IF idx < Len(sorted_offsets)
                         THEN sorted_offsets[idx + 1][2].v
                         ELSE properties_size
        IN  [name |-> sorted_offsets[idx][1],
             start |-> field_offset,
             end |-> field_end,
             value |-> read_cim_encoded_string(properties_data, field_offset, field_end)]])

\* process_hit from the loop over the sorted offsets on: the strings are
\* decoded into the record and parse_fields finishes it
process_hit_strings(properties_data, pos, record, offsets, properties_size, loc) ==
    LET sorted_offsets == sorted_by_value(offsets)
        fields == string_fields(properties_data, sorted_offsets, properties_size)
        parsed == parse_fields(
                      DictOf(AsTuple([i \in 1..Len(fields) |->
                                         <<fields[i].name, fields[i].value>>]))
                      @@ record)
        locals == [loc EXCEPT !.properties_data = properties_data,
                              !.sorted_offsets = sorted_offsets,
                              !.fields = fields]
    IN  IF ~parsed.ok
        THEN [kind |-> "raise", exc |-> parsed.exc, pos |-> pos,
              locals |-> [locals EXCEPT !.stage = "parse_fields"]]
        ELSE [kind |-> "return", record |-> parsed.record, pos |-> pos,
              locals |-> [locals EXCEPT !.stage = "decoded"]]

\* process_hit_properties with offsets['properties_size'] read in place of
\* offsets.pop('properties_size'): the key stays among the offsets
process_hit_properties_without_pop(buf, pos, record, offsets, loc, mode) ==
    LET properties_size == DictOf(offsets)["properties_size"].v
        read_size == Min(properties_size, RUA_MAX_RECORD_SIZE)
        praw == file_read(buf, pos, read_size, mode)
        locals == [loc EXCEPT !.properties_size = properties_size,
                              !.read_size = read_size]
    IN  IF ~praw.ok
        THEN [kind |-> "raise", exc |-> praw.exc, pos |-> pos,
              locals |-> [locals EXCEPT !.stage = "properties_data"]]
        ELSE process_hit_strings(praw.bytes, praw.pos, record, offsets,
                                 properties_size, locals)

\* process_hit from the offsets get_prop_offsets returned on: properties_size
\* is popped and the blob is read
process_hit_properties(buf, pos, record, offsets, loc, mode) ==
    LET properties_size == DictOf(offsets)["properties_size"].v
        read_size == Min(properties_size, RUA_MAX_RECORD_SIZE)
        praw == file_read(buf, pos, read_size, mode)
        locals == [loc EXCEPT !.properties_size = properties_size,
                              !.read_size = read_size]
    IN  IF ~praw.ok
        THEN [kind |-> "raise", exc |-> praw.exc, pos |-> pos,
              locals |-> [locals EXCEPT !.stage = "properties_data"]]
        ELSE process_hit_strings(praw.bytes, praw.pos, record,
                                 PopKey(offsets, "properties_size"),
                                 properties_size, locals)

\* process_hit_offsets with record['record_size'] read in place of
\* record.pop('record_size'): the key stays in the record
process_hit_offsets_without_pop(buf, pos, record, header, loc, mode) ==
    LET record_size == DictOf(header)["record_size"].v
        po == get_prop_offsets(buf, pos, DictOf(header) @@ record, mode)
        locals == [loc EXCEPT !.record_size = record_size]
    IN  IF po.is_none
        THEN [kind |-> "return", record |-> po.record, pos |-> po.pos,
              locals |-> [locals EXCEPT !.stage = "offsets"]]
        ELSE process_hit_properties(buf, po.pos, po.record, po.offsets, locals, mode)

\* process_hit from the decoded header on: record_size is popped (a size
\* above RUA_MAX_RECORD_SIZE is only reported) and the offset table is read
process_hit_offsets(buf, pos, record, header, loc, mode) ==
    LET record_size == DictOf(header)["record_size"].v
        po == get_prop_offsets(buf, pos,
                               DictOf(PopKey(header, "record_size")) @@ record, mode)
        locals == [loc EXCEPT !.record_size = record_size]
    IN  IF po.is_none
        THEN [kind |-> "return", record |-> po.record, pos |-> po.pos,
              locals |-> [locals EXCEPT !.stage = "offsets"]]
        ELSE process_hit_properties(buf, po.pos, po.record, po.offsets, locals, mode)

\* process_hit(fileobj, match, fullpath), fileobj being at pos: what it
\* returns or raises, where it leaves fileobj, and its locals
process_hit(buf, pos, match, fullpath, mode) ==
    LET hash_start == match.start
        hash_end == match.end
        match_len == hash_end - hash_start
        locals == [NoHit EXCEPT !.hash_start = hash_start, !.hash_end = hash_end,
                                !.match_len = match_len]
        hraw == file_read(buf, hash_end, StructSize(RUA_RECORD_HEADER), mode)
        header == parse_as_dict(RUA_RECORD_HEADER, hraw.bytes, 0)
    IN  IF match_len \notin DOMAIN RECENTLY_USED_APPS_TYPES
        THEN [kind |-> "raise", exc |-> "KeyError", pos |-> pos,
              locals |-> [locals EXCEPT !.stage = "record_type"]]
        ELSE IF ~header.ok
        THEN [kind |-> "return",
              record |-> [input_file_path |-> fullpath,
                          offset |-> PyInt(hash_start),
                          record_type |-> RECENTLY_USED_APPS_TYPES[match_len]],
              pos |-> hraw.pos,
              locals |-> [locals EXCEPT !.stage = "header"]]
        ELSE process_hit_offsets(buf, hraw.pos,
                                 [input_file_path |-> fullpath,
                                  offset |-> PyInt(hash_start),
                                  record_type |-> RECENTLY_USED_APPS_TYPES[match_len]],
                                 header.items, locals, mode)

----------------------------------------------------------------------------
(* The input files *)

\* n as k little-endian bytes (a negative n in two's complement)
le(n, k) ==
    LET RECURSIVE digits(_, _)
        digits(x, j) == IF j = 0 THEN <<>> ELSE <<x % 256>> \o digits(x \div 256, j - 1)
    IN  digits(IF n < 0 THEN n + 65536 ELSE n, k)

zeros(k) == AsTuple([i \in 1..k |-> 0])

\* struct.pack of the layout pairs, values giving each field's value
\* (a Q field's as its 8 bytes)
RECURSIVE pack(_, _)
pack(pairs, values) ==
    IF pairs = <<>> THEN <<>>
    ELSE LET name == Head(pairs)[1]
             f == Head(pairs)[2]
         IN  (CASE IsPad(f) -> zeros(FmtSize(f))
                [] f = "Q" -> values[name]
                [] OTHER -> le(values[name], FmtSize(f)))
             \o pack(Tail(pairs), values)

\* a properties blob laid out from its parts: the offset at which each part
\* starts, by the part's name
RECURSIVE part_offsets(_, _)
part_offsets(parts, at) ==
    IF parts = <<>> THEN <<>>
    ELSE << <<Head(parts)[1], at>> >>
         \o part_offsets(Tail(parts), at + Len(Head(parts)[2]))

blob_of(parts) == Concat(AsTuple([i \in 1..Len(parts) |-> parts[i][2]]))

\* tick counts: 2016-02-15 08:53:20, the last one datetime can hold, the
\* first that rounds past it, and the largest 64-bit value
TicksValid == <<0, 128, 147, 81, 206, 103, 209, 1>>

TicksLast == <<250, 63, 192, 209, 94, 90, 200, 36>>

TicksPastLast == <<251, 63, 192, 209, 94, 90, 200, 36>>

TicksMax == <<255, 255, 255, 255, 255, 255, 255, 255>>

TicksHalfEven == <<25, 0, 0, 0, 0, 0, 0, 0>>

\* the parts of a blob in the order real records have them: the class name,
\* then the strings in alphabetical order; a string without content is its
\* flag and its terminator.  given holds the parts that differ.
Parts(given) ==
    << <<"_class_name", <<0, 67, 0>> >> >> \o
    AsTuple([i \in 1..Len(RUA_RECORD_STRINGS) |->
        <<RUA_RECORD_STRINGS[i],
          IF RUA_RECORD_STRINGS[i] \in DOMAIN given
          THEN given[RUA_RECORD_STRINGS[i]] ELSE <<0, 0>> >>])

\* folder_path 'C:\', explorer_filename 'a.Ex', last_username 'u' (UTF-16)
GoodStrings ==
    [folder_path |-> <<0, 67, 58, 92, 0>>,
     explorer_filename |-> <<0, 97, 46, 69, 120, 0>>,
     last_username |-> <<1, 117, 0, 0, 0>>]

\* company_name with the flag 2, file_version with the flag 255
BadFlagStrings ==
    [company_name |-> <<2, 120, 0>>, file_version |-> <<255, 0, 0>>] @@ GoodStrings

\* file_description of one byte, msi_version of none, last_username in
\* UTF-16 with an odd number of bytes, product_name a lone high surrogate
ShortStrings ==
    [file_description |-> <<0>>, msi_version |-> <<>>,
     last_username |-> <<1, 117, 0, 0>>,
     product_name |-> <<1, 0, 216, 65, 0, 0, 0>>] @@ GoodStrings

\* folder_path 'C', without a backslash at its end
BareFolderStrings == [folder_path |-> <<0, 67, 0>>] @@ GoodStrings

\* one record as it lies in a file: lead bytes, the signature, the header,
\* the offset table and the blob, cut to cut bytes after the signature
\* (cut < 0: not cut)
Segment(p) ==
    LET parts == Parts(p.strings)
        blob == blob_of(parts)
        offsets == p.offsets @@ DictOf(part_offsets(parts, 0))
        header == pack(RUA_RECORD_HEADER,
                       [last_updated |-> p.lu, last_joined_sccm |-> p.lj,
                        record_size |-> p.rs])
        table == pack(RUA_PROPERTY_OFFSETS_VALUES,
                      [file_size |-> 1366528, launch_count |-> 64,
                       product_language |-> 1033,
                       properties_size |-> IF p.ps.exact THEN Len(blob)
                                           ELSE p.ps.v]
                      @@ offsets)
        body == header \o table \o blob \o p.tail
    IN  p.lead \o p.sig \o (IF p.cut < 0 THEN body ELSE SubSeq(body, 1, p.cut))

NoOffsets == [x \in {} |-> 0]

\* properties_size: the blob's length, or another value
Exact == [exact |-> TRUE]

Wrong(n) == [exact |-> FALSE, v |-> n]

\* a well-formed Vista record
Good ==
    [lead |-> <<>>, sig |-> VistaSig, lu |-> TicksValid, lj |-> TicksValid,
     rs |-> 300, strings |-> GoodStrings, offsets |-> NoOffsets, ps |-> Exact,
     tail |-> <<>>, cut |-> -1]

\* the records the input files are made of: the well-formed one, and the ways
\* a record, or a match of a signature, departs from it
Catalog ==
    << Good,
       [Good EXCEPT !.lead = <<0>>, !.sig = XPSig],
       [Good EXCEPT !.sig = XPSig],
       [Good EXCEPT !.sig = <<55, 0, 67, 0, 65>>, !.cut = 0],
       [Good EXCEPT !.cut = 10],
       [Good EXCEPT !.lu = Zero64, !.cut = 70],
       [Good EXCEPT !.lu = Zero64, !.lj = TicksMax],
       [Good EXCEPT !.lu = TicksLast, !.lj = TicksPastLast],
       [Good EXCEPT !.lu = TicksHalfEven, !.rs = 70000],
       [Good EXCEPT !.ps = Wrong(-1), !.tail = <<9, 9>>],
       [Good EXCEPT !.ps = Wrong(-2)],
       [Good EXCEPT !.ps = Wrong(-32768)],
       [Good EXCEPT !.ps = Wrong(0)],
       [Good EXCEPT !.ps = Wrong(32767)],
       [Good EXCEPT !.ps = Wrong(20)],
       [Good EXCEPT !.strings = BadFlagStrings],
       [Good EXCEPT !.strings = ShortStrings],
       [Good EXCEPT !.strings = BareFolderStrings],
       [Good EXCEPT !.offsets = [product_code |-> 3, product_version |-> 3]],
       [Good EXCEPT !.offsets = [software_properties_hash |-> 1000]],
       \* a Vista signature with 40 bytes after it, then '\x00' and the XP
       \* signature at the end of the file
       [Good EXCEPT !.lead = SubSeq(Segment(Good), 1, 168) \o <<0>>,
                    !.sig = XPSig, !.cut = 0] >>

\* how many records an input file holds at most, and how many of them at
\* most are not the well-formed one
MaxRecords == 2

MaxOdd == 1

\* the files of n records, at most odd of them not the well-formed one
RECURSIVE FilesOf(_, _)
FilesOf(n, odd) ==
    IF n = 0 THEN {<<>>}
    ELSE {f \o Segment(Good) : f \in FilesOf(n - 1, odd)}
         \cup (IF odd = 0 THEN {}
               ELSE {f \o Segment(Catalog[i]) :
                        f \in FilesOf(n - 1, odd - 1), i \in 2..Len(Catalog)})

\* the input files; the empty file is one of them
Files == UNION {FilesOf(n, MaxOdd) : n \in 0..MaxRecords}

\* the path parse() is given: 'p'
FullPath == Str(<<112>>)

----------------------------------------------------------------------------
(* parse(): the generator, one action for each way a next() on it ends *)

Init ==
    /\ data \in Files
    /\ fpos = 0
    /\ matches = finditer(data, 0)
    /\ scan = 0
    /\ out = <<>>
    /\ pc = "created"
    /\ err = ""
    /\ hit = NoHit

\* mmap.mmap(fileobj.fileno(), 0, ...) raises ValueError on an empty file
parse_mmap_error ==
    /\ pc = "created"
    /\ Len(data) = 0
    /\ pc' = "raised"
    /\ err' = "ValueError"
    /\ UNCHANGED <<data, fpos, matches, scan, out, hit>>

\* the generator can run on: it is suspended at the yield, or is new and the
\* file maps
Runnable == pc = "suspended" \/ (pc = "created" /\ Len(data) > 0)

\* finditer has no further match: the generator returns
parse_stop ==
    /\ Runnable
    /\ ~next_match(matches, scan).found
    /\ pc' = "done"
    /\ UNCHANGED <<data, fpos, matches, scan, out, err, hit>>

\* the next match, and process_hit returns a record, which is yielded
parse_yield ==
    /\ Runnable
    /\ LET match == next_match(matches, scan)
       IN  /\ match.found
           /\ \E mode \in ReadModes :
                LET r == process_hit(data, fpos, match, FullPath, mode)
                IN  /\ r.kind = "return"
                    /\ out' = Append(out, r.record)
                    /\ fpos' = r.pos
                    /\ hit' = r.locals
                    /\ scan' = match.end
    /\ pc' = "suspended"
    /\ UNCHANGED <<data, matches, err>>

\* the next match, and process_hit raises: the exception ends the generator
parse_raise ==
    /\ Runnable
    /\ LET match == next_match(matches, scan)
       IN  /\ match.found
           /\ \E mode \in ReadModes :
                LET r == process_hit(data, fpos, match, FullPath, mode)
                IN  /\ r.kind = "raise"
                    /\ err' = r.exc
                    /\ fpos' = r.pos
                    /\ hit' = r.locals
                    /\ scan' = match.end
    /\ pc' = "raised"
    /\ UNCHANGED <<data, matches, out>>

Next == parse_mmap_error \/ parse_stop \/ parse_yield \/ parse_raise

Spec == Init /\ [][Next]_vars

----------------------------------------------------------------------------
(* What the claims speak of, read off the state *)

\* the last record parse() yielded
LastRecord == out[Len(out)]

\* the length of the match that gave the record rec, by its record_type
MatchLen(rec) ==
    CHOOSE n \in DOMAIN RECENTLY_USED_APPS_TYPES :
        RECENTLY_USED_APPS_TYPES[n] = rec["record_type"]

\* where the signature of rec ends in the file: the header starts there
SigEnd(rec) == rec["offset"].v + MatchLen(rec)

\* the bytes the header and the offset table take after a signature
FixedSize == StructSize(RUA_RECORD_HEADER) + StructSize(RUA_PROPERTY_OFFSETS_VALUES)

\* the header of rec's match is cut short by the end of the file
HeaderTruncated(rec) == Len(data) - SigEnd(rec) < StructSize(RUA_RECORD_HEADER)

\* the header or the offset table of rec's match is cut short
Truncated(rec) == Len(data) - SigEnd(rec) < FixedSize

\* the 8 bytes of the header of rec's match that hold the tick count of key
RawTicks(rec, key) ==
    LET at == SigEnd(rec) + (IF key = "last_updated" THEN 0 ELSE 8)
    IN  Slice(data, at, at + 8)

\* the entry of the offset table of the call hit describes, as it lies in the
\* file: the k-th 4-byte field after the header
TableEntry(k) ==
    LET at == hit.hash_end + StructSize(RUA_RECORD_HEADER) + 4 * (k - 1)
    IN  u32(Slice(data, at, at + 4))

\* the place of name in the offset table
TableIndex(name) ==
    CHOOSE k \in 1..Len(RUA_PROPERTY_OFFSETS_VALUES) :
        RUA_PROPERTY_OFFSETS_VALUES[k][1] = name

\* the elements of a sequence
Range(s) == {s[i] : i \in 1..Len(s)}

\* process_hit got past the offset table in its last call and returned
Decoded == hit.stage = "decoded"

----------------------------------------------------------------------------
(* C1 *)

\* C1: no decode failure ends the generator: whatever process_hit meets in a
\* match (a truncated structure, any record_size, flag, string, tick count or
\* properties_size), parse() does not terminate with an exception raised from
\* the processing of a match, and so goes on to the later matches.
\* The code: a match of 65 bytes raises KeyError, a properties_size below -1
\* raises ValueError in a buffered reader, and the exception ends parse().
C1_FailuresContained == ~(pc = "raised" /\ hit.stage # "none")

----------------------------------------------------------------------------
(* C2 *)

\* C2: every match the scanner hands to process_hit is an occurrence of one of
\* the two signature literals and is 128 or 64 bytes long, so that
\* RECENTLY_USED_APPS_TYPES[match_len] is defined; a 128-byte match gives
\* 'Vista', a 64-byte match 'XP', and offset is where the signature starts.
\* The code: the pattern is the UTF-16 encoding of 'VISTA|XP', in which the
\* bar is the two bytes '|' '\x00'; the second alternative is '\x00' followed
\* by the XP signature, 65 bytes.
C2_MatchIsSignature ==
    hit.stage # "none" =>
        /\ hit.match_len \in DOMAIN RECENTLY_USED_APPS_TYPES
        /\ Slice(data, hit.hash_start, hit.hash_end) \in {VistaSig, XPSig}
        /\ (pc = "suspended" =>
               /\ LastRecord["offset"] = PyInt(hit.hash_start)
               /\ LastRecord["record_type"] =
                      (IF Slice(data, hit.hash_start, hit.hash_end) = VistaSig
                       THEN Str(VistaName) ELSE Str(XPName)))

----------------------------------------------------------------------------
(* C3 *)

----------------------------------------------------------------------------
(* C4 *)

\* field i of the decoded record: its range as process_hit cut it
FieldLen(i) == hit.fields[i].end - hit.fields[i].start

\* C4 as the specification states it: in every record decoded past the offset
\* table the sorted offsets of the string fields strictly increase, and every
\* field range, the last one ending at properties_size, has positive length.
\* The code sorts whatever offsets the table holds: equal offsets stay equal
\* and the last offset may lie beyond properties_size.
C4_StrictlyIncreasing ==
    Decoded =>
        /\ \A i \in 1..(Len(hit.sorted_offsets) - 1) :
               hit.sorted_offsets[i][2].v < hit.sorted_offsets[i + 1][2].v
        /\ \A i \in 1..Len(hit.fields) : FieldLen(i) > 0

\* C4, amended: in every record decoded past the offset table, the sorted
\* offsets are those of the 17 string fields (the 20 table entries less
\* file_size, launch_count and product_language), each as it lies in the
\* table, and they are non-decreasing: equal offsets are possible.  Field i
\* ranges from its offset to the next sorted offset, the last field to
\* properties_size; consecutive ranges are contiguous, a range may be empty,
\* and the last one is inverted when the last offset exceeds properties_size.
C4_NonDecreasing ==
    Decoded =>
        LET so == hit.sorted_offsets
            n == Len(so)
        IN  /\ n = Len(RUA_RECORD_STRINGS)
            /\ {so[i][1] : i \in 1..n} = Range(RUA_RECORD_STRINGS)
            /\ \A i \in 1..n : so[i][2].v = TableEntry(TableIndex(so[i][1]))
            /\ \A i \in 1..(n - 1) : so[i][2].v <= so[i + 1][2].v
            /\ Len(hit.fields) = n
            /\ \A i \in 1..n :
                   /\ hit.fields[i].name = so[i][1]
                   /\ hit.fields[i].start = so[i][2].v
                   /\ hit.fields[i].end = (IF i < n THEN hit.fields[i + 1].start
                                           ELSE hit.properties_size)

\* a record was decoded whose table holds two equal offsets, and one whose
\* last offset lies beyond properties_size
C4_Witness ==
    /\ Decoded
    /\ \E i \in 1..(Len(hit.fields) - 1) : FieldLen(i) = 0
    /\ FieldLen(Len(hit.fields)) > 0

\* the last offset beyond properties_size: the last range is inverted
C4_WitnessInverted == Decoded /\ FieldLen(Len(hit.fields)) < 0

----------------------------------------------------------------------------
(* C5 *)

\* the Encoded-String-Flag of a field starting at start in buf: the byte
\* there is neither 0x00 nor 0x01
BadFlag(buf, start) ==
    /\ start >= 0
    /\ start < Len(buf)
    /\ buf[start + 1] \notin {0, 1}

\* blobs for read_cim_encoded_string on its own: every sequence of up to
\* three of these bytes
FlagBytes == {0, 1, 2, 255}

FlagBlobs ==
    UNION {[1..n -> FlagBytes] : n \in 0..3}

\* C5: whenever the byte at a field's start offset is neither 0x00 nor 0x01,
\* read_cim_encoded_string returns None for the field and raises nothing, and
\* the other fields of the record are still decoded: the record is returned
\* with all 17 string fields, the field with the bad flag being None.
C5_BadFlagIsNone ==
    /\ \A b \in FlagBlobs : \A start \in 0..Len(b) : \A end \in 0..(Len(b) + 1) :
           BadFlag(b, start) => read_cim_encoded_string(b, start, end) = None
    /\ Decoded =>
           /\ \A i \in 1..Len(hit.fields) :
                  BadFlag(hit.properties_data, hit.fields[i].start) =>
                      /\ hit.fields[i].value = None
                      /\ LastRecord[hit.fields[i].name] = None
           /\ \A i \in 1..Len(RUA_RECORD_STRINGS) :
                  RUA_RECORD_STRINGS[i] \in DOMAIN LastRecord

\* a record was decoded in which company_name has a bad flag and is None,
\* and last_username, decoded after it, is the string 'u'
C5_Witness ==
    /\ Decoded
    /\ \E i \in 1..Len(hit.fields) :
           /\ hit.fields[i].name = "company_name"
           /\ BadFlag(hit.properties_data, hit.fields[i].start)
           /\ LastRecord["company_name"] = None
    /\ LastRecord["last_username"] = Str(<<117>>)

----------------------------------------------------------------------------
(* C6 *)

\* C6: read_cim_encoded_string returns None for every field range that cannot
\* hold content: a range of length 2, a range of length below 2 (1, 0,
\* negative), and a start offset beyond the end of the blob.
\* The code: with a range shorter than 2, a valid flag at start and a byte
\* after it, buf[start + 1:end] is empty and is decoded to '', not None.
C6_ShortRangeIsNone ==
    Decoded =>
        \A i \in 1..Len(hit.fields) :
            (FieldLen(i) <= 2 \/ hit.fields[i].start > Len(hit.properties_data))
                => hit.fields[i].value = None

----------------------------------------------------------------------------
(* C7 *)

\* the conversion of the tick count raw overflows datetime: raw is past the
\* last count that rounds to datetime.max or below
Overflows(raw) == Gt64(raw, TicksLast, 8)

\* C7: in every record parse() yields, last_updated and last_joined_sccm are
\* None whenever the tick count in the header is 0 or overflows, and are
\* never the raw integer; the conversion does not raise.
\* The code: the record returned when the offset table does not unpack has
\* not gone through parse_fields and holds the two integers as read.
C7_TimestampsConverted ==
    /\ ~(pc = "raised" /\ hit.stage = "parse_fields")
    /\ \A i \in 1..Len(out) :
           \A key \in {"last_updated", "last_joined_sccm"} :
               key \in DOMAIN out[i] =>
                   /\ out[i][key].t # "int"
                   /\ (RawTicks(out[i], key) = Zero64 \/ Overflows(RawTicks(out[i], key)))
                          => out[i][key] = None

----------------------------------------------------------------------------
(* C8 *)

----------------------------------------------------------------------------
(* C9 *)

\* C9: parse() yields its records in strictly ascending order of offset and
\* visits the whole buffer in one pass, wherever the decoding of a record left
\* the file position: when it returns, every occurrence of the Vista
\* signature has its record; a buffer without a match yields no record and
\* no error.
\* The code: mmap.mmap raises ValueError on an empty file.
C9_OnePass ==
    /\ \A i \in 1..Len(out) : \A j \in (i + 1)..Len(out) :
           out[i]["offset"].v < out[j]["offset"].v
    /\ pc = "done" =>
           \A p \in 0..(Len(data) - Len(VistaSig)) :
               MatchesAt(data, p, VistaSig) =>
                   \E i \in 1..Len(out) : out[i]["offset"] = PyInt(p)
    /\ ~NextMatch(data, 0).found => (pc # "raised" /\ out = <<>>)

----------------------------------------------------------------------------
(* C10 *)

\* process_hit got as far as reading the properties blob in its last call
BlobRequested == hit.stage \in {"properties_data", "parse_fields", "decoded"}

\* C10: for every properties_size of the offset table the number of bytes
\* process_hit requests for the blob is min(properties_size, 65536) and lies
\* in 0..65536, and the blob held is no longer than that.
\* The code: a negative properties_size is requested as it is; read(-1) reads
\* to the end of the file.
C10_ReadSizeBounded ==
    BlobRequested =>
        /\ hit.properties_size \in -32768..32767
        /\ hit.read_size = Min(hit.properties_size, RUA_MAX_RECORD_SIZE)
        /\ hit.read_size \in 0..RUA_MAX_RECORD_SIZE
        /\ Len(hit.properties_data) <= hit.read_size

----------------------------------------------------------------------------
(* C11 *)

\* the decoded string field key of the last record, None taken as empty
FieldOrEmpty(key) ==
    IF LastRecord[key] = None THEN <<>> ELSE LastRecord[key].v

\* folder_path, one backslash unless folder_path ends with one already, and
\* explorer_filename
JoinedPath ==
    LET folder == FieldOrEmpty("folder_path")
        name == FieldOrEmpty("explorer_filename")
    IN  folder
        \o (IF folder # <<>> /\ folder[Len(folder)] = 92 THEN <<>> ELSE <<92>>)
        \o name

\* C11: in every decoded record full_path is folder_path, then one backslash
\* only when folder_path does not end with one already, then
\* explorer_filename (None taken as empty); full_path is None if that would
\* be empty, so that a record with neither a folder path nor a file name has
\* a None full_path.
\* The code: an empty folder_path does not end with a backslash, so the
\* backslash is always inserted and the joined string is never empty: a
\* record with neither field has the full_path '\', and the "or None" never
\* applies.
C11_FullPath ==
    Decoded =>
        /\ LastRecord["full_path"] = (IF JoinedPath = <<>> THEN None ELSE Str(JoinedPath))
        /\ (FieldOrEmpty("folder_path") = <<>> /\ FieldOrEmpty("explorer_filename") = <<>>)
               => LastRecord["full_path"] = None

=============================================================================
